---- MODULE Spec2Model ----
(***************************************************************************)
(* Model of the step-validation server of src/src/server.py.               *)
(*                                                                         *)
(* TCPServer.start accepts connections and runs one handle_client thread   *)
(* per connection.  Every handler loops over recv / decode / validate /    *)
(* send.  The only shared state is current_step, guarded by self.lock.     *)
(* The critical section is modelled at the granularity at which Python     *)
(* threads can interleave: acquiring the lock, the comparison of line 59   *)
(* and the assignment of line 61 / 65 are separate steps.                  *)
(*                                                                         *)
(* log is a history variable: one entry per request that reached the       *)
(* comparison of line 59, in the order the comparisons were made.  An      *)
(* entry records the connection, the request's step_id, the value of       *)
(* current_step read by the comparison (pre), the error code chosen, the   *)
(* connections that were blocked on the lock with the same step_id when an *)
(* in-order request was compared (waiting), the value written to           *)
(* current_step (post, once done) and the response sent for it (reply, a   *)
(* sequence of length 0 or 1).                                             *)
(***************************************************************************)
EXTENDS Integers, Sequences, FiniteSets

\* ---- bounds of the model ----
NumConns == 2
MaxRecvs == 3
MaxStepId == 3
ScriptLen == 2

\* ---- program constants ----
timeout_threshold == 5

OK == 0
TIMEOUT == 1
OUT_OF_ORDER == 2
UNEXPECTED_ERROR == 3

\* Python's None (the value of request.get for a missing key)
None == -1
\* a local variable of handle_client that has not been assigned yet
Unbound == -2
\* self.lock is not held
NoHolder == 0

Conns == 1..NumConns
StepIds == 1..MaxStepId
Timeouts == {timeout_threshold - 1, timeout_threshold, None}

\* The byte strings a peer can send, by what json.loads makes of them:
\*   "object"  a JSON object with keys step_id and (unless None) timeout
\*   "array"   valid JSON that is not an object (request.get fails)
\*   "garbage" bytes that are not JSON (json.loads fails)
Messages ==
    [kind : {"object"}, step_id : StepIds, timeout : Timeouts]
    \cup [kind : {"array", "garbage"}, step_id : {None}, timeout : {None}]

NoData == [kind |-> "none", step_id |-> None, timeout |-> None]

\* What the Step Driver can read as a response (client.py line 82):
\*   "END"     the bytes b"END"
\*   "json"    a JSON object; error_code None when the key is missing,
\*             UnknownCode when it is no member of ErrorCode
\*   "garbage" anything json.loads rejects (b"" after a close included)
UnknownCode == 7

Replies ==
    [kind : {"END", "garbage"}, error_code : {None}]
    \cup [kind : {"json"},
          error_code : {OK, TIMEOUT, OUT_OF_ORDER, UNEXPECTED_ERROR, UnknownCode, None}]

NoReply == [kind |-> "none", error_code |-> None]

\* the exceptions a socket call of send_step can raise, by the except clause
\* that catches them (client.py lines 97 and 100)
Failures == {"socket_timeout", "exception"}
NoResponse == [step_id |-> Unbound, error_code |-> Unbound]

VARIABLES
    current_step,   \* self.current_step
    lock,           \* self.lock: NoHolder or the connection whose handler holds it
    pc,             \* per connection: position of its handler thread
    data,           \* per connection: local `data`, the message last received
    step_id,        \* per connection: local `step_id` (survives loop iterations)
    response,       \* per connection: local `response`
    nrecv,          \* per connection: number of non-empty messages received
    nsent,          \* per connection: number of responses sent
    term,           \* per connection: how the handler left its loop
    log,            \* history: requests that reached the comparison, in order
    driver          \* the Step Driver (src/src/client.py), a record, see below

\* the server's variables
svars == <<current_step, lock, pc, data, step_id, response, nrecv, nsent, term, log>>

vars == <<current_step, lock, pc, data, step_id, response, nrecv, nsent, term, log,
          driver>>

\* The fields of driver:
cpc == driver.pc            \* position in run / send_step
cstep == driver.step        \* index in self.steps of the step of the for loop
cresp == driver.resp        \* local `response` of send_step
called == driver.called     \* history: the steps send_step was called with, in order
opened == driver.opened     \* history: the steps whose connect succeeded, in order
outcome == driver.outcome   \* history: how each send_step call ended, in order
decoded == driver.decoded   \* history: the steps whose response went to json.loads

RECURSIVE SumTo(_, _)
SumTo(f, n) == IF n = 0 THEN 0 ELSE f[n] + SumTo(f, n - 1)

\* total number of messages received by all handlers
TotalRecv == SumTo(nrecv, NumConns)

\* total number of times recv has returned or raised (line 41)
Returns ==
    TotalRecv + Cardinality({c \in Conns : term[c] \in {"peer_close", "socket_timeout"}})

\* line 48: json.loads(data.decode()) succeeds
Decodes(m) == m.kind # "garbage"

\* lines 49-50: request.get exists (the decoded value is a dict)
IsObject(m) == m.kind = "object"

\* line 53: the comparison `request_timeout < self.timeout_threshold` is defined
ComparableAlways(t) == TRUE

Comparable(t) == t # None

\* line 53: request_timeout < self.timeout_threshold
BelowThresholdRev(t) == t > timeout_threshold

BelowThreshold(t) == t < timeout_threshold

\* line 59: step_id == self.current_step + 1
InOrderOffByOne(sid, cur) == sid = cur

InOrderGreater(sid, cur) == sid > cur

InOrder(sid, cur) == sid = cur + 1

\* line 61: self.current_step = step_id
AcceptedKeep(sid, cur) == cur

Accepted(sid, cur) == sid

\* line 65: self.current_step += 1
RejectedSet(sid, cur) == IF sid > cur THEN sid ELSE cur + 1

Rejected(sid, cur) == cur + 1

\* line 58: threading.Lock can be acquired
LockFreeAlways == TRUE

LockFree == lock = NoHolder

\* line 58, leaving the with block: the lock after handler c left it
AfterWithHeld(c) == lock

AfterWith(c) == IF lock = c THEN NoHolder ELSE lock

\* index of the log entry of connection c's request in progress
RECURSIVE LastOf(_, _)
LastOf(c, i) == IF i = 0 THEN 0
                ELSE IF log[i].conn = c THEN i ELSE LastOf(c, i - 1)

OwnEntry(c) == LastOf(c, Len(log))

Init ==
    /\ current_step = 0
    /\ lock = NoHolder
    /\ pc = [c \in Conns |-> "none"]
    /\ data = [c \in Conns |-> NoData]
    /\ step_id = [c \in Conns |-> Unbound]
    /\ response = [c \in Conns |-> NoResponse]
    /\ nrecv = [c \in Conns |-> 0]
    /\ nsent = [c \in Conns |-> 0]
    /\ term = [c \in Conns |-> "running"]
    /\ log = << >>
    /\ driver = [pc |-> "loop", step |-> 1, resp |-> NoReply, called |-> << >>,
                 opened |-> << >>, outcome |-> << >>, decoded |-> {}]

\* start, lines 93-96: accept a connection and start its handler thread
Accept(c) ==
    /\ pc[c] = "none"
    /\ pc' = [pc EXCEPT ![c] = "recv"]
    /\ UNCHANGED <<current_step, lock, data, step_id, response, nrecv, nsent, term, log, driver>>

\* an except block of handle_client (lines 69-73 with code TIMEOUT, lines
\* 74-78 with code UNEXPECTED_ERROR): build the response from the local
\* step_id, send it, break and close.  When step_id was never assigned the
\* block itself raises UnboundLocalError: nothing is sent, line 80 is not
\* reached and the thread dies.  term records what ended the loop.
ExceptContinue(c, sid, code, why) ==
    IF sid = Unbound
    THEN /\ pc' = [pc EXCEPT ![c] = "died"]
         /\ term' = [term EXCEPT ![c] = why]
         /\ UNCHANGED <<response, nsent>>
    ELSE /\ response' = [response EXCEPT ![c] = [step_id |-> sid, error_code |-> code]]
         /\ nsent' = [nsent EXCEPT ![c] = @ + 1]
         /\ pc' = [pc EXCEPT ![c] = "recv"]
         /\ UNCHANGED term

Except(c, sid, code, why) ==
    IF sid = Unbound
    THEN /\ pc' = [pc EXCEPT ![c] = "died"]
         /\ term' = [term EXCEPT ![c] = why]
         /\ UNCHANGED <<response, nsent>>
    ELSE /\ response' = [response EXCEPT ![c] = [step_id |-> sid, error_code |-> code]]
         /\ nsent' = [nsent EXCEPT ![c] = @ + 1]
         /\ pc' = [pc EXCEPT ![c] = "closed"]
         /\ term' = [term EXCEPT ![c] = why]

\* lines 41-55: recv returns the non-empty message m; decode it, read its
\* fields and compare its timeout with the threshold
Handle(c, m) ==
    /\ pc[c] = "recv"
    /\ data' = [data EXCEPT ![c] = m]
    /\ nrecv' = [nrecv EXCEPT ![c] = @ + 1]
    /\ UNCHANGED <<current_step, lock, log, driver>>
    /\ IF ~Decodes(m) \/ ~IsObject(m)
       THEN \* line 48 or line 49 raises: step_id keeps its earlier value
            /\ UNCHANGED step_id
            /\ Except(c, step_id[c], UNEXPECTED_ERROR, "exception")
       ELSE /\ step_id' = [step_id EXCEPT ![c] = m.step_id]
            /\ IF ~Comparable(m.timeout)
               THEN \* line 53 raises TypeError: step_id is already assigned
                    Except(c, m.step_id, UNEXPECTED_ERROR, "exception")
               ELSE IF BelowThreshold(m.timeout)
               THEN /\ response' = [response EXCEPT ![c] =
                                      [step_id |-> m.step_id, error_code |-> TIMEOUT]]
                    /\ pc' = [pc EXCEPT ![c] = "send"]
                    /\ UNCHANGED <<nsent, term>>
               ELSE /\ pc' = [pc EXCEPT ![c] = "lock"]
                    /\ UNCHANGED <<response, nsent, term>>

\* line 41 returning any message a peer can send
RecvMsg(c, m) ==
    /\ pc[c] = "recv"
    /\ Returns < MaxRecvs
    /\ Handle(c, m)

\* lines 41-43 and 80: recv returns b"" (the peer closed): break and close
PeerClose(c) ==
    /\ pc[c] = "recv"
    /\ pc' = [pc EXCEPT ![c] = "closed"]
    /\ term' = [term EXCEPT ![c] = "peer_close"]
    /\ UNCHANGED <<current_step, lock, data, step_id, response, nrecv, nsent, log, driver>>

RecvClose(c) ==
    /\ pc[c] = "recv"
    /\ Returns < MaxRecvs
    /\ PeerClose(c)

\* lines 41 and 69-73: recv raises socket.timeout
RecvTimeout(c) ==
    /\ pc[c] = "recv"
    /\ Returns < MaxRecvs
    /\ Except(c, step_id[c], TIMEOUT, "socket_timeout")
    /\ UNCHANGED <<current_step, lock, data, step_id, nrecv, log, driver>>

\* line 58: with self.lock (enter)
Acquire(c) ==
    /\ pc[c] = "lock"
    /\ LockFree
    /\ lock' = c
    /\ pc' = [pc EXCEPT ![c] = "compare"]
    /\ UNCHANGED <<current_step, data, step_id, response, nrecv, nsent, term, log, driver>>

\* lines 59-60 and 62-64: read current_step, compare, build the response
Compare(c) ==
    /\ pc[c] = "compare"
    /\ LET ok == InOrder(step_id[c], current_step)
           code == IF ok THEN OK ELSE OUT_OF_ORDER
       IN /\ response' = [response EXCEPT ![c] =
                            [step_id |-> step_id[c], error_code |-> code]]
          /\ pc' = [pc EXCEPT ![c] = IF ok THEN "set" ELSE "increment"]
          /\ log' = Append(log, [conn |-> c, step_id |-> step_id[c],
                                 pre |-> current_step, code |-> code,
                                 done |-> FALSE, post |-> current_step,
                                 waiting |-> {d \in Conns : /\ pc[d] = "lock"
                                                          /\ step_id[d] = step_id[c]
                                                          /\ InOrder(step_id[c], current_step)},
                                 reply |-> << >>])
    /\ UNCHANGED <<current_step, lock, data, step_id, nrecv, nsent, term, driver>>

\* line 61 or line 65, then the end of the with block (release)
Update(c) ==
    /\ pc[c] \in {"set", "increment"}
    /\ LET new == IF pc[c] = "set" THEN Accepted(step_id[c], current_step)
                                   ELSE Rejected(step_id[c], current_step)
       IN /\ current_step' = new
          /\ log' = [log EXCEPT ![OwnEntry(c)].done = TRUE,
                                ![OwnEntry(c)].post = new]
    /\ lock' = AfterWith(c)
    /\ pc' = [pc EXCEPT ![c] = "send"]
    /\ UNCHANGED <<data, step_id, response, nrecv, nsent, term, driver>>

\* line 67: sendall(response), then back to line 41
Send(c) ==
    /\ pc[c] = "send"
    /\ nsent' = [nsent EXCEPT ![c] = @ + 1]
    /\ pc' = [pc EXCEPT ![c] = "recv"]
    /\ log' = IF response[c].error_code \in {OK, OUT_OF_ORDER}
              THEN [log EXCEPT ![OwnEntry(c)].reply = <<response[c]>>]
              ELSE log
    /\ UNCHANGED <<current_step, lock, data, step_id, response, nrecv, term, driver>>

Next ==
    \E c \in Conns :
        \/ Accept(c)
        \/ \E m \in Messages : RecvMsg(c, m)
        \/ RecvClose(c)
        \/ RecvTimeout(c)
        \/ Acquire(c)
        \/ Compare(c)
        \/ Update(c)
        \/ Send(c)

Spec == Init /\ [][Next]_vars

TypeOK ==
    /\ current_step \in Nat
    /\ lock \in Conns \cup {NoHolder}
    /\ pc \in [Conns -> {"none", "recv", "lock", "compare", "set", "increment",
                         "send", "closed", "died"}]
    /\ step_id \in [Conns -> StepIds \cup {Unbound}]
    /\ Returns <= MaxRecvs

\* ---------------------------------------------------------------------
\* The Step Driver of src/src/client.py: TCPClient.run and send_step.
\* The script has ScriptLen steps; a step is named by its index.  What the
\* server end does is the environment's choice.
\* ---------------------------------------------------------------------

\* send_step, lines 83-84 and 97-102: where control goes when send_step ends
\* in the given way.  The return at line 84 and both except clauses return
\* to run, line 111.
AfterStepAbort(how) == IF how = "exception" THEN "finished" ELSE "sleep_out"

AfterStep(how) == "sleep_out"

\* the driver after send_step ended in the given way
Ended(d, how) == [d EXCEPT !.outcome = Append(@, how), !.pc = AfterStep(how)]

\* run, lines 108-110: the for loop takes the next step and calls send_step
Call ==
    /\ cpc = "loop"
    /\ cstep <= ScriptLen
    /\ driver' = [driver EXCEPT !.called = Append(@, cstep), !.pc = "connect"]
    /\ UNCHANGED svars

\* run, line 108: the script is exhausted
RunEnds ==
    /\ cpc = "loop"
    /\ cstep > ScriptLen
    /\ driver' = [driver EXCEPT !.pc = "finished"]
    /\ UNCHANGED svars

\* send_step, lines 75-76: the connection is opened
Connect ==
    /\ cpc = "connect"
    /\ driver' = [driver EXCEPT !.opened = Append(@, cstep), !.pc = "send"]
    /\ UNCHANGED svars

\* send_step, line 79: the request is sent
SendRequest ==
    /\ cpc = "send"
    /\ driver' = [driver EXCEPT !.pc = "recv"]
    /\ UNCHANGED svars

\* send_step, lines 76, 79 or 82 raise; lines 97-102 log and return
SocketFails(e) ==
    /\ cpc \in {"connect", "send", "recv"}
    /\ driver' = Ended(driver, e)
    /\ UNCHANGED svars

\* send_step, lines 82-84: a response is read; b"END" returns at once
RecvResponse(r) ==
    /\ cpc = "recv"
    /\ driver' = IF r.kind = "END"
                 THEN Ended([driver EXCEPT !.resp = r], "END")
                 ELSE [driver EXCEPT !.resp = r, !.pc = "decode"]
    /\ UNCHANGED svars

\* send_step, lines 85-92: json.loads, error_code (default UNEXPECTED_ERROR),
\* log_error or the success message.  json.loads of garbage and
\* ErrorCode(error_code) of an unknown code raise; line 100 catches.
Decode ==
    /\ cpc = "decode"
    /\ LET d == [driver EXCEPT !.decoded = @ \cup {cstep}] IN
           driver' = IF cresp.kind = "garbage" \/ cresp.error_code = UnknownCode
                     THEN Ended(d, "exception")
                     ELSE [d EXCEPT !.pc = "sleep_in"]
    /\ UNCHANGED svars

\* send_step, line 95: time.sleep(step["interval"]), then the with block
\* closes the socket and send_step returns
SleepInner ==
    /\ cpc = "sleep_in"
    /\ driver' = Ended(driver, IF cresp.error_code = OK THEN "ok" ELSE "error")
    /\ UNCHANGED svars

\* run, line 111: time.sleep(step["interval"]), then the next iteration
SleepOuter ==
    /\ cpc = "sleep_out"
    /\ driver' = [driver EXCEPT !.step = @ + 1, !.pc = "loop"]
    /\ UNCHANGED svars

ClientNext ==
    \/ Call
    \/ RunEnds
    \/ Connect
    \/ SendRequest
    \/ \E e \in Failures : SocketFails(e)
    \/ \E r \in Replies : RecvResponse(r)
    \/ Decode
    \/ SleepInner
    \/ SleepOuter

ClientSpec == Init /\ [][ClientNext]_vars

\* C12: once a step has read b"END", that response is not decoded as JSON
\* and no later step of the script is called or opens a connection.
C12_Claim ==
    \A k \in 1..Len(outcome) :
        outcome[k] = "END" =>
            /\ called[k] \notin decoded
            /\ \A j \in 1..Len(called) : called[j] <= called[k]
            /\ \A j \in 1..Len(opened) : opened[j] <= called[k]

Quiet == \A c \in Conns : pc[c] \in {"none", "recv", "closed", "died"}

Replied(i) == Len(log[i].reply) = 1

RepliedWith(i, code) ==
    log[i].reply = <<[step_id |-> log[i].step_id, error_code |-> code]>>

\* the message is a decoded request whose timeout is below the threshold
LowTimeout(m) ==
    m.kind = "object" /\ m.timeout # None /\ m.timeout < timeout_threshold

\* every message received so far reached the comparison and was answered
OnlyValidated ==
    /\ Quiet
    /\ Len(log) >= 1
    /\ TotalRecv = Len(log)
    /\ \A i \in 1..Len(log) : log[i].done /\ Replied(i)

AllOkEndingAtLast ==
    /\ \A i \in 1..Len(log) : RepliedWith(i, OK)
    /\ current_step = log[Len(log)].step_id

\* C1 as stated: on a fresh server, when the requests processed so far are
\* exactly a sequence with strictly increasing step_id starting at 1 (each
\* with timeout >= threshold), every response is OK and current_step
\* equals the last step_id.
C1_Original ==
    ( /\ OnlyValidated
      /\ log[1].step_id = 1
      /\ \A i \in 1..(Len(log) - 1) : log[i].step_id < log[i + 1].step_id )
    => AllOkEndingAtLast

\* C1 amended: the same with step_ids 1, 2, ..., n (each one more than the
\* previous): every response is OK and current_step equals the last step_id.
C1_Consecutive ==
    ( /\ OnlyValidated
      /\ \A i \in 1..Len(log) : log[i].step_id = i )
    => AllOkEndingAtLast

C1_Witness ==
    /\ OnlyValidated
    /\ Len(log) = 3
    /\ \A i \in 1..Len(log) : log[i].step_id = i
    /\ current_step = 3

\* C2: a decoded request with timeout < threshold is answered TIMEOUT with
\* its own step_id, its handler never waits for, holds or uses the lock,
\* and no step of its handling changes current_step or the lock.
C2_State ==
    \A c \in Conns :
        LowTimeout(data[c]) =>
            /\ pc[c] \in {"send", "recv", "closed", "died"}
            /\ lock # c
            /\ pc[c] \in {"send", "recv"} =>
                   response[c] = [step_id |-> data[c].step_id, error_code |-> TIMEOUT]
            /\ pc[c] = "recv" => nsent[c] = nrecv[c]

C2_Step ==
    \A c \in Conns :
        (LowTimeout(data'[c]) /\ pc'[c] # pc[c]) =>
            (current_step' = current_step /\ lock' = lock)

C2_TimeoutLeavesSequence == [](C2_State) /\ [][C2_Step]_vars

C2_Witness ==
    \E c \in Conns :
        /\ LowTimeout(data[c])
        /\ data[c].step_id = current_step + 1
        /\ current_step > 0
        /\ pc[c] = "recv"
        /\ nsent[c] = nrecv[c]

\* C3: a request whose step_id differs from current_step + 1 when it is
\* compared is answered OUT_OF_ORDER and current_step becomes its previous
\* value plus 1 (not the request's step_id).
C3_RejectAdvancesByOne ==
    \A i \in 1..Len(log) :
        log[i].step_id # log[i].pre + 1 =>
            /\ log[i].code = OUT_OF_ORDER
            /\ log[i].done => log[i].post = log[i].pre + 1
            /\ Replied(i) => RepliedWith(i, OUT_OF_ORDER)
            /\ (log[i].done /\ i = Len(log) /\ lock = NoHolder) =>
                   current_step = log[i].pre + 1

C3_Witness ==
    \E i, j \in 1..Len(log) :
        /\ log[i].step_id > log[i].pre + 1
        /\ log[j].step_id < log[j].pre + 1
        /\ Replied(i) /\ Replied(j)

\* C4: when N >= 2 connections submit the same request with step_id equal
\* to current_step + 1 and these are the latest requests validated, exactly
\* one is answered OK, the others OUT_OF_ORDER, and current_step ends N
\* above its value before them.
SameNext(i) ==
    LET W == i..Len(log) IN
        /\ Cardinality(W) >= 2
        /\ \A j \in W : log[j].step_id = log[i].pre + 1
        /\ \A j, k \in W : j # k => log[j].conn # log[k].conn
        /\ \A j \in W : log[j].done /\ Replied(j)

C4_OneWinner ==
    \A i \in 1..Len(log) :
        SameNext(i) =>
            LET W == i..Len(log) IN
                /\ Cardinality({j \in W : RepliedWith(j, OK)}) = 1
                /\ Cardinality({j \in W : RepliedWith(j, OUT_OF_ORDER)})
                       = Cardinality(W) - 1
                /\ current_step = log[i].pre + Cardinality(W)

\* every other submitter was blocked on the lock while the first compared
C4_Witness ==
    \E i \in 1..Len(log) :
        /\ SameNext(i)
        /\ log[i].pre > 0
        /\ log[i].waiting = {log[j].conn : j \in (i + 1)..Len(log)}

\* C5: at most one handler at a time is inside the with-block that reads,
\* compares and writes current_step.
InCritical(c) == pc[c] \in {"compare", "set", "increment"}

C5_MutualExclusion ==
    /\ Cardinality({c \in Conns : InCritical(c)}) <= 1
    /\ \A c \in Conns : InCritical(c) => lock = c

C5_Witness ==
    \E c, d \in Conns :
        /\ c # d
        /\ pc[c] \in {"set", "increment"}
        /\ pc[d] = "lock"

\* C6: current_step never decreases.
C6_Monotone == [][current_step' >= current_step]_vars

C6_Witness ==
    /\ current_step >= 2
    /\ \E i, j \in 1..Len(log) : log[i].code = OK /\ log[j].code = OUT_OF_ORDER
    /\ \E c \in Conns : data[c].kind = "garbage" \/ LowTimeout(data[c])

\* the highest step_id accepted so far (0 when none)
RECURSIVE MaxAcceptedTo(_)
MaxAcceptedTo(i) ==
    IF i = 0 THEN 0
    ELSE LET m == MaxAcceptedTo(i - 1) IN
         IF log[i].code = OK /\ log[i].done /\ log[i].step_id > m
         THEN log[i].step_id ELSE m

MaxAccepted == MaxAcceptedTo(Len(log))

\* index of the latest acceptance (0 when none)
RECURSIVE LastAcceptedTo(_)
LastAcceptedTo(i) ==
    IF i = 0 THEN 0
    ELSE IF log[i].code = OK /\ log[i].done THEN i ELSE LastAcceptedTo(i - 1)

RejectedSinceAccept ==
    Cardinality({i \in (LastAcceptedTo(Len(log)) + 1)..Len(log) :
                    log[i].code = OUT_OF_ORDER /\ log[i].done})

\* C7 as stated: current_step equals the highest step_id answered OK
\* (0 when none).
C7_Original == current_step = MaxAccepted

\* C7 amended: current_step is never below a step_id answered OK; it equals
\* the highest accepted step_id (0 when none) plus the number of
\* OUT_OF_ORDER rejections made since that acceptance.
C7_AcceptedPlusRejects ==
    /\ \A i \in 1..Len(log) : RepliedWith(i, OK) => current_step >= log[i].step_id
    /\ current_step = MaxAccepted + RejectedSinceAccept

C7_Witness ==
    /\ MaxAccepted >= 1
    /\ RejectedSinceAccept >= 1
    /\ current_step > MaxAccepted
    /\ \E i \in 1..Len(log) : RepliedWith(i, OK)

\* C8: a handler that received a message that is not JSON has sent an
\* UNEXPECTED_ERROR response and closed the connection.
C8_Claim ==
    \A c \in Conns :
        data[c].kind = "garbage" =>
            /\ pc[c] = "closed"
            /\ response[c].error_code = UNEXPECTED_ERROR
            /\ nsent[c] = nrecv[c]

\* C9: whenever a handler is about to read again or has terminated, it has
\* sent exactly one response per message it received (the response to a
\* socket timeout at recv answers no message and is not counted).
C9_Claim ==
    \A c \in Conns :
        pc[c] \in {"recv", "closed", "died"} =>
            nsent[c] = nrecv[c]
                + (IF term[c] = "socket_timeout" /\ pc[c] = "closed" THEN 1 ELSE 0)

\* C10: two consecutive validations of the same step_id, the first with
\* step_id = current_step + 1, give OK then OUT_OF_ORDER and leave
\* current_step 2 above its starting value.
SameTwice(i) ==
    /\ log[i + 1].step_id = log[i].step_id
    /\ log[i].step_id = log[i].pre + 1
    /\ log[i].done /\ log[i + 1].done
    /\ Replied(i) /\ Replied(i + 1)

C10_NotIdempotent ==
    \A i \in 1..(Len(log) - 1) :
        SameTwice(i) =>
            /\ RepliedWith(i, OK)
            /\ RepliedWith(i + 1, OUT_OF_ORDER)
            /\ log[i + 1].post = log[i].pre + 2
            /\ (i + 1 = Len(log) /\ lock = NoHolder) => current_step = log[i].pre + 2

\* the two sends on two connections, after an earlier acceptance
C10_Witness ==
    \E i \in 1..(Len(log) - 1) :
        /\ SameTwice(i)
        /\ log[i].conn # log[i + 1].conn
        /\ log[i].pre > 0
        /\ i + 1 = Len(log) /\ lock = NoHolder

\* the two sends on one connection
C10_SameConnection ==
    \E i \in 1..(Len(log) - 1) :
        /\ SameTwice(i)
        /\ log[i].conn = log[i + 1].conn

\* ---------------------------------------------------------------------
\* The end-to-end scenario: four requests sent one after the other (each
\* after the response to the previous one), on any of the connections,
\* with no other traffic.
\* ---------------------------------------------------------------------

Request(sid, t) == [kind |-> "object", step_id |-> sid, timeout |-> t]

ScenarioScript == <<Request(1, 10), Request(2, 3), Request(2, 10), Request(5, 10)>>

ScenarioResponses ==
    << [step_id |-> 1, error_code |-> OK],
       [step_id |-> 2, error_code |-> TIMEOUT],
       [step_id |-> 2, error_code |-> OK],
       [step_id |-> 5, error_code |-> OUT_OF_ORDER] >>

ScenarioSteps == <<1, 1, 2, 3>>

\* line 41 returning the next request of the scenario
ScenarioSend(c) ==
    /\ Quiet
    /\ TotalRecv < Len(ScenarioScript)
    /\ Handle(c, ScenarioScript[TotalRecv + 1])

\* line 41 returning b"": the peer closes a connection between requests
ScenarioClose(c) == PeerClose(c)

ScenarioNext ==
    \E c \in Conns :
        \/ Accept(c)
        \/ ScenarioSend(c)
        \/ ScenarioClose(c)
        \/ Acquire(c)
        \/ Compare(c)
        \/ Update(c)
        \/ Send(c)

ScenarioSpec == Init /\ [][ScenarioNext]_vars

\* C11: with threshold 5 on a fresh server, the requests (1, 10), (2, 3),
\* (2, 10), (5, 10) are answered (1, OK), (2, TIMEOUT), (2, OK),
\* (5, OUT_OF_ORDER) in this order and current_step is 1, 1, 2, 3 after them.
C11_Scenario ==
    \A k \in 1..Len(ScenarioScript) :
        (TotalRecv = k /\ Quiet) =>
            /\ current_step = ScenarioSteps[k]
            /\ SumTo(nsent, NumConns) = k
            /\ \E c \in Conns :
                   /\ data[c] = ScenarioScript[k]
                   /\ response[c] = ScenarioResponses[k]
                   /\ nsent[c] = nrecv[c]

C11_Witness ==
    /\ TotalRecv = Len(ScenarioScript)
    /\ Quiet
    /\ current_step = 3
    /\ \A c \in 1..2 : nrecv[c] > 0

\* ---------------------------------------------------------------------
\* Properties of the counter, the lock and the handler's life cycle
\* ---------------------------------------------------------------------

NumDone == Cardinality({i \in 1..Len(log) : log[i].done})

NumReplied == Cardinality({i \in 1..Len(log) : Replied(i)})

\* C14 as stated: whenever no handler holds the lock, current_step equals
\* the number of requests answered OK or OUT_OF_ORDER.
C14_Original == lock = NoHolder => current_step = NumReplied

\* C14 amended: whenever no handler holds the lock, current_step equals the
\* number of requests whose validation is complete (OK or OUT_OF_ORDER
\* chosen, counter written), and the number of requests answered OK or
\* OUT_OF_ORDER as soon as each of them has been sent its response;
\* requests answered TIMEOUT or UNEXPECTED_ERROR are not in the count.
C14_OncePerValidation ==
    lock = NoHolder =>
        /\ current_step = NumDone
        /\ (\A i \in 1..Len(log) : log[i].done => Replied(i)) =>
               current_step = NumReplied

C14_Witness ==
    /\ lock = NoHolder
    /\ Quiet
    /\ current_step = 2
    /\ NumReplied = 2
    /\ TotalRecv = 3
    /\ SumTo(nsent, NumConns) = 3

\* the atomic try-accept operation applied to the first i logged requests,
\* starting from 0: the counter it leaves and the code of the i-th
RECURSIVE TryAcceptTo(_)
TryAcceptTo(i) ==
    IF i = 0 THEN 0
    ELSE LET cur == TryAcceptTo(i - 1) IN
         IF log[i].step_id = cur + 1 THEN log[i].step_id ELSE cur + 1

TryAcceptCode(i) ==
    IF log[i].step_id = TryAcceptTo(i - 1) + 1 THEN OK ELSE OUT_OF_ORDER

\* C15: the codes chosen, the responses sent and the counter are those of
\* applying try-accept sequentially to the requests in the order they
\* entered the critical section, and every step that changes current_step
\* is one try-accept of the lock holder's step_id.
C15_State ==
    /\ \A i \in 1..Len(log) :
           /\ log[i].code = TryAcceptCode(i)
           /\ log[i].done => log[i].post = TryAcceptTo(i)
           /\ Replied(i) => RepliedWith(i, TryAcceptCode(i))
    /\ lock = NoHolder => current_step = TryAcceptTo(Len(log))

C15_Step ==
    current_step' # current_step =>
        \E c \in Conns :
            /\ lock = c
            /\ lock' = NoHolder
            /\ current_step' = IF step_id[c] = current_step + 1
                                  THEN step_id[c]
                                  ELSE current_step + 1

C15_Sequential == [](C15_State) /\ [][C15_Step]_vars

C15_Witness ==
    /\ Len(log) = 3
    /\ \E i \in 1..Len(log) : log[i].waiting # {}
    /\ \E i, j \in 1..Len(log) : log[i].code = OK /\ log[j].code = OUT_OF_ORDER
    /\ \A i \in 1..Len(log) : Replied(i)
    /\ lock = NoHolder

\* C16: the lock is held only between entering the with block and writing
\* current_step: never by a handler that waits in recv, sends, has closed
\* or died.  So handlers outside the block never keep a waiting handler
\* from acquiring; the holder can always take its next step, and its steps
\* stay in the block holding the lock or leave it releasing the lock.
C16_State ==
    /\ \A c \in Conns : lock = c => InCritical(c)
    /\ \A c \in Conns : lock = c => ENABLED (Compare(c) \/ Update(c))
    /\ \A d \in Conns :
           (pc[d] = "lock" /\ \A c \in Conns : ~InCritical(c)) => ENABLED Acquire(d)

C16_Step ==
    \A c \in Conns :
        (lock = c /\ pc'[c] # pc[c]) =>
            \/ pc'[c] \in {"set", "increment"} /\ lock' = c
            \/ pc'[c] = "send" /\ lock' = NoHolder

C16_LockOnlyAroundUpdate == [](C16_State) /\ [][C16_Step]_vars

C16_Witness ==
    \E c, d \in Conns :
        /\ c # d
        /\ lock = d
        /\ pc[c] = "send"
        /\ response[c].error_code \in {OK, OUT_OF_ORDER}

\* C17: the response to a message carries the step_id of that message (None
\* when the message has none), never one left by an earlier message.
C17_Claim ==
    \A c \in Conns :
        (nrecv[c] > 0 /\ nsent[c] = nrecv[c] /\ term[c] \in {"running", "exception"}) =>
            response[c].step_id = data[c].step_id

\* the message faults before validation: not JSON, not an object, or no
\* timeout to compare
Faulty(m) ==
    \/ m.kind \in {"array", "garbage"}
    \/ m.kind = "object" /\ m.timeout = None

\* C18: a handler that sent OK, OUT_OF_ORDER or a declared-timeout TIMEOUT
\* reads again; it stops only from recv, on peer close, socket timeout or an
\* exception (a faulting message always stops it), and a peer close sends
\* nothing and leaves current_step alone.
C18_State ==
    \A c \in Conns :
        /\ pc[c] \in {"closed", "died"} <=> term[c] # "running"
        /\ term[c] = "exception" => Faulty(data[c])
        /\ Faulty(data[c]) => pc[c] \in {"closed", "died"}
        /\ pc[c] = "send" => response[c].error_code \in {OK, OUT_OF_ORDER, TIMEOUT}

C18_Step ==
    \A c \in Conns :
        /\ (pc[c] = "send" /\ pc'[c] # "send") =>
               (pc'[c] = "recv" /\ nsent'[c] = nsent[c] + 1 /\ term'[c] = "running")
        /\ (pc'[c] \in {"closed", "died"} /\ pc[c] \notin {"closed", "died"}) =>
               (pc[c] = "recv" /\ term'[c] \in {"peer_close", "socket_timeout", "exception"})
        /\ (term'[c] = "peer_close" /\ term[c] = "running") =>
               /\ pc'[c] = "closed"
               /\ nsent' = nsent
               /\ response' = response
               /\ current_step' = current_step

C18_LifeCycle == [](C18_State) /\ [][C18_Step]_vars

C18_Witness ==
    \E c \in Conns :
        /\ nsent[c] = 2
        /\ term[c] = "peer_close"
        /\ pc[c] = "closed"
        /\ current_step = 1

\* C19: the step_ids accepted, in the order of the critical section, are
\* strictly increasing; no step_id is answered OK twice.
C19_AcceptedIncreasing ==
    \A i, j \in 1..Len(log) :
        (i < j /\ log[i].code = OK /\ log[j].code = OK) =>
            log[i].step_id < log[j].step_id

C19_Witness ==
    \E i, j \in 1..Len(log) :
        /\ i + 1 < j
        /\ RepliedWith(i, OK)
        /\ RepliedWith(j, OK)
        /\ log[i].conn # log[j].conn

\* C20: receiving a message that faults before validation changes neither
\* current_step nor the lock, and ends the handler with UNEXPECTED_ERROR
\* (or without a response); such a handler never reaches the lock.
C20_State ==
    \A c \in Conns :
        /\ Faulty(data[c]) => (lock # c /\ pc[c] \in {"closed", "died"})
        /\ response[c].error_code = UNEXPECTED_ERROR =>
               (Faulty(data[c]) /\ pc[c] = "closed")

C20_Step ==
    \A c \in Conns :
        (nrecv'[c] = nrecv[c] + 1 /\ Faulty(data'[c])) =>
            /\ current_step' = current_step
            /\ lock' = lock
            /\ log' = log
            /\ pc'[c] = "closed" =>
                   (response'[c].error_code = UNEXPECTED_ERROR /\ nsent'[c] = nsent[c] + 1)
            /\ pc'[c] = "died" => nsent'[c] = nsent[c]

C20_FaultLeavesSequence == [](C20_State) /\ [][C20_Step]_vars

C20_Witness ==
    \E c, d \in Conns :
        /\ c # d
        /\ data[c].kind = "object" /\ Faulty(data[c])
        /\ pc[c] = "closed"
        /\ response[c].error_code = UNEXPECTED_ERROR
        /\ current_step > 0
        /\ lock = d

====
